---- MODULE Spec2Model ----
(***************************************************************************)
(* CacheFlow: the in-memory store (internal/store/store.go) and its       *)
(* append-only file (internal/persistence, AOF).                          *)
(*                                                                         *)
(* Strings are sequences of one-character strings, so that the text       *)
(* conversions of the log (strings.Join, strings.Fields, TrimSpace,       *)
(* time.ParseDuration, Duration.String) are computed and not assumed.     *)
(* Time is a wall clock counted in whole seconds.                         *)
(***************************************************************************)
EXTENDS Integers, Sequences, FiniteSets, TLC

\* ------------------------------------------------------------------ bounds

\* the clock runs from 0 to MaxTime
MaxTime == 2
\* the stores append at most MaxLog lines to the AOF file they found: a Set
\* or Delete is not issued on an open AOF that appended that many
MaxLog == 1
\* concurrent callers start at most MaxCalls calls of the store
MaxCalls == 2

\* ------------------------------------------------------------------ text

SET == <<"S", "E", "T">>
DELETE == <<"D", "E", "L", "E", "T", "E">>

\* unicode.IsSpace on the characters that occur
IsSpace(c) == c \in {" ", "\t", "\r", "\n"}

RECURSIVE TrimLeft(_)
TrimLeft(s) ==
    IF s # <<>> /\ IsSpace(Head(s)) THEN TrimLeft(Tail(s)) ELSE s

RECURSIVE TrimRight(_)
TrimRight(s) ==
    IF s # <<>> /\ IsSpace(s[Len(s)])
    THEN TrimRight(SubSeq(s, 1, Len(s) - 1))
    ELSE s

\* strings.TrimSpace
TrimSpace(s) == TrimRight(TrimLeft(s))

\* the length of the longest prefix of s without white space
RECURSIVE WordLen(_)
WordLen(s) ==
    IF s = <<>> \/ IsSpace(Head(s)) THEN 0 ELSE 1 + WordLen(Tail(s))

\* strings.Fields: the maximal runs of non-space characters
RECURSIVE Fields(_)
Fields(s) ==
    LET t == TrimLeft(s)
        n == WordLen(t)
    IN  IF t = <<>> THEN <<>>
        ELSE <<SubSeq(t, 1, n)>> \o Fields(SubSeq(t, n + 1, Len(t)))

\* strings.Join
RECURSIVE Join(_, _)
Join(parts, sep) ==
    IF parts = <<>> THEN <<>>
    ELSE IF Len(parts) = 1 THEN parts[1]
    ELSE parts[1] \o sep \o Join(Tail(parts), sep)

\* strings.ToUpper on the letters of the command names
ToUpperChar(c) ==
    CASE c = "s" -> "S"
      [] c = "e" -> "E"
      [] c = "t" -> "T"
      [] c = "d" -> "D"
      [] c = "l" -> "L"
      [] OTHER -> c

ToUpper(s) == [i \in 1..Len(s) |-> ToUpperChar(s[i])]

\* the length of the first line of s, without its line end
RECURSIVE LineLen(_)
LineLen(s) ==
    IF s = <<>> \/ Head(s) = "\n" THEN 0 ELSE 1 + LineLen(Tail(s))

\* bufio.ScanLines: a trailing carriage return is dropped from a line
DropCR(s) ==
    IF s # <<>> /\ s[Len(s)] = "\r" THEN SubSeq(s, 1, Len(s) - 1) ELSE s

\* the tokens bufio.Scanner yields for the file content s: the lines, each
\* without its line end; a last line without line end is yielded too
RECURSIVE ScanLines(_)
ScanLines(s) ==
    IF s = <<>> THEN <<>>
    ELSE LET n == LineLen(s)
         IN  <<DropCR(SubSeq(s, 1, n))>> \o ScanLines(SubSeq(s, n + 2, Len(s)))

\* ------------------------------------------------------------- durations

Digits == <<"0", "1", "2", "3", "4", "5", "6", "7", "8", "9">>

IsDigit(c) == \E i \in 1..10 : Digits[i] = c

DigitValue(c) == (CHOOSE i \in 1..10 : Digits[i] = c) - 1

\* the decimal digits of n >= 0
RECURSIVE Itoa(_)
Itoa(n) ==
    IF n < 10 THEN <<Digits[n + 1]>> ELSE Itoa(n \div 10) \o <<Digits[(n % 10) + 1]>>

\* time.Duration.String for a whole number of seconds 0 < d < 60: "<d>s"
DurationString(d) == Itoa(d) \o <<"s">>

\* the length of the leading run of digits of s
RECURSIVE DigitsLen(_)
DigitsLen(s) ==
    IF s = <<>> \/ ~IsDigit(Head(s)) THEN 0 ELSE 1 + DigitsLen(Tail(s))

\* the length of the leading run of unit characters of s (time.ParseDuration:
\* everything up to the next '.' or digit)
RECURSIVE UnitLen(_)
UnitLen(s) ==
    IF s = <<>> \/ IsDigit(Head(s)) \/ Head(s) = "." THEN 0
    ELSE 1 + UnitLen(Tail(s))

\* the value of a run of digits
RECURSIVE Atoi(_)
Atoi(s) ==
    IF s = <<>> THEN 0 ELSE 10 * Atoi(SubSeq(s, 1, Len(s) - 1)) + DigitValue(s[Len(s)])

\* time.ParseDuration's unit table, in seconds; of its units (ns, us, ms, s,
\* m, h) those of at least a second
UnitSeconds(u) ==
    CASE u = <<"s">> -> 1
      [] u = <<"m">> -> 60
      [] u = <<"h">> -> 3600
      [] OTHER -> -1

\* time.ParseDuration on an unsigned token without fraction: a sequence of
\* <digits><unit> groups; [ok, d]. "0" alone is the zero duration.
RECURSIVE ParseGroups(_)
ParseGroups(s) ==
    IF s = <<>> THEN [ok |-> TRUE, d |-> 0]
    ELSE LET n == DigitsLen(s)
             r == SubSeq(s, n + 1, Len(s))
             m == UnitLen(r)
             u == SubSeq(r, 1, m)
             rest == ParseGroups(SubSeq(r, m + 1, Len(r)))
         IN  IF n = 0 \/ m = 0 \/ UnitSeconds(u) < 0 \/ ~rest.ok
             THEN [ok |-> FALSE, d |-> 0]
             ELSE [ok |-> TRUE, d |-> Atoi(SubSeq(s, 1, n)) * UnitSeconds(u) + rest.d]

ParseDuration(s) ==
    IF s = <<"0">> THEN [ok |-> TRUE, d |-> 0]
    ELSE IF s = <<>> THEN [ok |-> FALSE, d |-> 0]
    ELSE ParseGroups(s)

\* ------------------------------------------------------------------ state

VARIABLES
    now,      \* the wall clock, time.Now(), in seconds
    file,     \* the AOF file on disk: its lines, each without its line end
              \* (every write ends with a line end)
    st,       \* "none": no store constructed; "live": New returned a store;
              \* "failed": New returned an error and no store
    aof,      \* Store.aof: "nil" (no persistence), "open", "closed" (its file),
              \* "broken" (open, its bufio.Writer keeps the error of a flush)
    items,    \* Store.items: key -> Item
    last,     \* the operation that made the last step, with its arguments
    ret,      \* what that operation returned
    hist,     \* history: key -> the last Set applied to the key, while no
              \* Delete of the key followed it: its value, whether its ttl
              \* was <= 0 and, if not, the instant of the call plus the ttl
    applied,  \* history: the log lines the last New applied to its map
    logged,   \* history: the lines appended to the AOF file so far
    closed    \* history: <<[items, at]>>, the map and the instant of the
              \* Close before the last New; <<>> once the new store is used

\* the state of concurrent callers (ConcSpec)
VARIABLES
    pc,       \* caller -> the statement it is at, "idle" between calls
    call,     \* caller -> the call it is in: [op, key, value, ttl]
    loc,      \* caller -> the local variables of its call
    mu,       \* Store.mu: [w, r], the callers holding it exclusively, shared
    amu,      \* AOF.mu: the callers holding it
    calls,    \* history: the Set and Delete calls started
    abs,      \* history: the map of a store on which every call takes
              \* effect in one step, at one instant inside the call
    whole     \* history: key -> the (value, expiration) pairs Sets wrote

\* the state of the persister's writer, step by step (LockSpec)
VARIABLES
    buf,      \* AOF.writer: the bytes in the buffer of the bufio.Writer
    writes    \* history: the command texts of the Write calls, in the order
              \* in which they took AOF.mu

svars == <<now, file, st, aof, items, last, ret, hist, applied, logged, closed>>
cvars == <<pc, call, loc, mu, amu, calls, abs, whole, buf, writes>>
vars == <<svars, cvars>>

\* the callers: two connections, the sweep loop of Server.Start, and
\* Server.Start itself, whose deferred call closes the store
Clients == {"c1", "c2"}
Sweeper == "sweep"
Closer == "main"
Procs == Clients \cup {Sweeper, Closer}

\* the value a connection's Sets carry
ValueOf(p) == IF p = "c1" THEN <<"x">> ELSE <<"y">>

NoCall == [op |-> "none"]
NoLocals == [t |-> 0]

\* a map without keys
EmptyMap == [k \in {} |-> <<>>]

\* the nil interface value Get returns for a key it does not find
Nil == <<"<nil>">>

\* the keys, values and ttls callers pass to the store
Keys == {<<"a">>, <<"b">>}
Values == {<<"x">>, <<>>}
TTLs == {-1, 0, 1}

\* the log files a first session may find on disk
InitialLogs ==
    { <<>>,
      <<SET \o <<" ", "a", " ", "x">>>>,
      <<<<"s", "e", "t", " ", "b", " ", "x", " ", "y", " ", "1", "s">>, <<" ">>>>,
      <<SET \o <<" ", "a", " ", "x">>, <<"G", "E", "T", " ", "a">>>>,
      <<SET \o <<" ", "a", " ", "x">>, DELETE \o <<" ", "a", " ", "b">>>>,
      <<SET \o <<" ", "a", " ", "x">>, DELETE>>,
      <<SET \o <<" ", "b">>>> }

\* ------------------------------------------------------------------ store

\* After with the instant itself counted as after
After_OrEqual(t, u) == t >= u

\* time.Time.After
After(t, u) == t > u

\* SetItem with the ttl test off by one: a zero ttl gets an expiration
SetItem_ZeroTtlExpires(its, key, value, ttl, t) ==
    LET expiration == IF ttl >= 0 THEN <<t + ttl>> ELSE <<>>
        item == [Value |-> value, Expiration |-> expiration]
    IN  [k \in DOMAIN its \cup {key} |-> IF k = key THEN item ELSE its[k]]

\* SetItem leaving the expiration of an entry it finds as it was
SetItem_KeepsExpiration(its, key, value, ttl, t) ==
    LET expiration == IF key \in DOMAIN its THEN its[key].Expiration
                      ELSE IF ttl > 0 THEN <<t + ttl>> ELSE <<>>
        item == [Value |-> value, Expiration |-> expiration]
    IN  [k \in DOMAIN its \cup {key} |-> IF k = key THEN item ELSE its[k]]

\* SetItem with the instant of the call as expiration
SetItem_ExpiresNow(its, key, value, ttl, t) ==
    LET expiration == IF ttl > 0 THEN <<t>> ELSE <<>>
        item == [Value |-> value, Expiration |-> expiration]
    IN  [k \in DOMAIN its \cup {key} |-> IF k = key THEN item ELSE its[k]]

\* Set's map update: the expiration, then the item
SetItem(its, key, value, ttl, t) ==
    LET expiration == IF ttl > 0 THEN <<t + ttl>> ELSE <<>>
        item == [Value |-> value, Expiration |-> expiration]
    IN  [k \in DOMAIN its \cup {key} |-> IF k = key THEN item ELSE its[k]]

\* a delete that empties the map
DeleteItem_ClearsAll(its, key) == [k \in {} |-> its[k]]

\* Go's delete(s.items, key)
DeleteItem(its, key) == [k \in DOMAIN its \ {key} |-> its[k]]

\* the command Set records
SetParts(key, value, ttl) ==
    <<SET, key, value>> \o (IF ttl > 0 THEN <<DurationString(ttl)>> ELSE <<>>)

\* the command Delete records
DeleteParts(key) == <<DELETE, key>>

\* AOF.Write without the isLoading test
AofWrite_IgnoresLoading(f, a, isLoading, command) ==
    IF a = "nil" THEN f
    ELSE IF a = "closed" THEN f
    ELSE f \o ScanLines(command \o <<"\n">>)

\* AOF.Write on the file f: the new file. A write during loading is
\* skipped; a write to a closed file fails in Flush and leaves f alone.
AofWrite(f, a, isLoading, command) ==
    IF a = "nil" THEN f
    ELSE IF isLoading THEN f
    ELSE IF a = "closed" THEN f
    ELSE f \o ScanLines(command \o <<"\n">>)

\* Store.recordCommand
RecordCommand(f, a, isLoading, parts) ==
    IF a = "nil" THEN f ELSE AofWrite(f, a, isLoading, Join(parts, <<" ">>))

\* Store.Set recording the command only for a key it did not hold
StoreSet_LogsNewKeysOnly(s, a, isLoading, key, value, ttl, t) ==
    [s EXCEPT
       !.items = SetItem(s.items, key, value, ttl, t),
       !.file = IF key \in DOMAIN s.items THEN s.file
                ELSE RecordCommand(s.file, a, isLoading, SetParts(key, value, ttl)),
       !.hist = [k \in DOMAIN s.hist \cup {key} |->
                   IF k = key
                   THEN [value |-> value, permanent |-> ttl <= 0,
                         due |-> IF ttl <= 0 THEN 0 ELSE t + ttl]
                   ELSE s.hist[k]]]

\* Store.Set on the store s = [items, file, hist] at time t
StoreSet(s, a, isLoading, key, value, ttl, t) ==
    [s EXCEPT
       !.items = SetItem(s.items, key, value, ttl, t),
       !.file = RecordCommand(s.file, a, isLoading, SetParts(key, value, ttl)),
       !.hist = [k \in DOMAIN s.hist \cup {key} |->
                   IF k = key
                   THEN [value |-> value, permanent |-> ttl <= 0,
                         due |-> IF ttl <= 0 THEN 0 ELSE t + ttl]
                   ELSE s.hist[k]]]

\* Store.Delete on the store s at time t
StoreDelete(s, a, isLoading, key) ==
    [s EXCEPT
       !.items = DeleteItem(s.items, key),
       !.file = RecordCommand(s.file, a, isLoading, DeleteParts(key)),
       !.hist = [k \in DOMAIN s.hist \ {key} |-> s.hist[k]]]

\* Store.Get on the map its at time t
GetAt(its, key, t) ==
    IF key \notin DOMAIN its THEN [value |-> Nil, found |-> FALSE]
    ELSE IF its[key].Expiration # <<>> /\ After(t, its[key].Expiration[1])
    THEN [value |-> Nil, found |-> FALSE]
    ELSE [value |-> its[key].Value, found |-> TRUE]

\* Exists without the expiration test
ExistsAt_IgnoresExpiry(its, key, t) == key \in DOMAIN its

\* Store.Exists on the map its at time t
ExistsAt(its, key, t) ==
    IF key \notin DOMAIN its THEN FALSE
    ELSE IF its[key].Expiration # <<>> /\ After(t, its[key].Expiration[1])
    THEN FALSE
    ELSE TRUE

\* the sweep with its own comparison, at or after the expiration
SweepItems_AtOrAfter(its, t) ==
    LET gone == {k \in DOMAIN its :
                   its[k].Expiration # <<>> /\ t >= its[k].Expiration[1]}
    IN  [k \in DOMAIN its \ gone |-> its[k]]

\* a sweep that keeps the expired entries and takes their expiration away
SweepItems_RevivesExpired(its, t) ==
    [k \in DOMAIN its |->
       IF its[k].Expiration # <<>> /\ After(t, its[k].Expiration[1])
       THEN [Value |-> its[k].Value, Expiration |-> <<>>]
       ELSE its[k]]

\* a sweep that removes every entry with an expiration
SweepItems_RemovesAll(its, t) ==
    [k \in {j \in DOMAIN its : its[j].Expiration = <<>>} |-> its[k]]

\* Store.DeleteExpired's loop on the map its, with now = t
SweepItems(its, t) ==
    LET gone == {k \in DOMAIN its :
                   its[k].Expiration # <<>> /\ After(t, its[k].Expiration[1])}
    IN  [k \in DOMAIN its \ gone |-> its[k]]

\* ------------------------------------------------------------ persistence

\* the integrity check of a line that lets a SET of two tokens pass
LineIntegrity_AllowsShortSet(text) ==
    LET line == TrimSpace(text)
        parts == Fields(line)
    IN  IF line = <<>> THEN TRUE
        ELSE IF Len(parts) < 2 THEN FALSE
        ELSE CASE ToUpper(parts[1]) = SET -> TRUE
               [] ToUpper(parts[1]) = DELETE -> ~(Len(parts) # 2)
               [] OTHER -> FALSE

\* checkAOFIntegrity on one scanned line: TRUE when it raises no error
LineIntegrity(text) ==
    LET line == TrimSpace(text)
        parts == Fields(line)
    IN  IF line = <<>> THEN TRUE
        ELSE IF Len(parts) < 2 THEN FALSE
        ELSE CASE ToUpper(parts[1]) = SET -> ~(Len(parts) < 3)
               [] ToUpper(parts[1]) = DELETE -> ~(Len(parts) # 2)
               [] OTHER -> FALSE

\* an integrity check that accepts every file
CheckAOFIntegrity_AcceptsAll(f) == TRUE

\* checkAOFIntegrity on the file f: TRUE when it returns nil
CheckAOFIntegrity(f) == \A i \in 1..Len(f) : LineIntegrity(f[i])

\* the replay handler New passes to Load, after it split its command into
\* parts, on the store s at time t: [err, s]. The store's AOF is open and
\* loading.
HandlerParts(s, parts, t) ==
    LET n == Len(parts)
        cmd == ToUpper(parts[1])
        parsed == ParseDuration(parts[n])
    IN  IF n = 0 THEN [err |-> FALSE, s |-> s]
        ELSE CASE cmd = SET ->
                    IF n < 3 THEN [err |-> TRUE, s |-> s]
                    ELSE IF n > 3 /\ parsed.ok
                    THEN [err |-> FALSE,
                          s |-> StoreSet(s, "open", TRUE, parts[2],
                                         Join(SubSeq(parts, 3, n - 1), <<" ">>),
                                         parsed.d, t)]
                    ELSE [err |-> FALSE,
                          s |-> StoreSet(s, "open", TRUE, parts[2],
                                         Join(SubSeq(parts, 3, n), <<" ">>), 0, t)]
               [] cmd = DELETE ->
                    IF n # 2 THEN [err |-> TRUE, s |-> s]
                    ELSE [err |-> FALSE,
                          s |-> StoreDelete(s, "open", TRUE, parts[2])]
               [] OTHER -> [err |-> TRUE, s |-> s]

\* the replay handler: parts := strings.Fields(command), split once
Handler(s, command, t) ==
    CHOOSE r \in {HandlerParts(s, parts, t) : parts \in {Fields(command)}} : TRUE

\* AOF.Load's scan loop over the lines left: [err, s, applied], applied
\* counting the lines the handler had applied when the loop ended
RECURSIVE LoadLines(_, _, _, _)
LoadLines(lines, s, t, n) ==
    IF lines = <<>> THEN [err |-> FALSE, s |-> s, applied |-> n]
    ELSE LET line == TrimSpace(Head(lines))
             r == Handler(s, line, t)
         IN  IF line = <<>> THEN LoadLines(Tail(lines), s, t, n)
             ELSE IF r.err THEN [err |-> TRUE, s |-> s, applied |-> n]
             ELSE LoadLines(Tail(lines), r.s, t, n + 1)

\* AOF.Load: the integrity check, then the scan
Load(s, t) ==
    IF ~CheckAOFIntegrity(s.file) THEN [err |-> TRUE, s |-> s, applied |-> 0]
    ELSE LoadLines(s.file, s, t, 0)

\* store.New with a file name: persistence.New (open, integrity check), then
\* Load into the fresh store: [err, s, applied]
NewStore(f, t) ==
    LET fresh == [items |-> EmptyMap, file |-> f, hist |-> EmptyMap]
    IN  IF ~CheckAOFIntegrity(f) THEN [err |-> TRUE, s |-> fresh, applied |-> 0]
        ELSE Load(fresh, t)

\* --------------------------------------------------------------- actions

\* the store as the operators above take it
Cur == [items |-> items, file |-> file, hist |-> hist]

\* a store that callers use: they stop using a store whose file they closed
Usable == st = "live" /\ aof # "closed"

Init ==
    /\ now = 0
    /\ file \in InitialLogs
    /\ st = "none"
    /\ aof = "nil"
    /\ items = EmptyMap
    /\ last = <<"Init">>
    /\ ret = <<>>
    /\ hist = EmptyMap
    /\ applied = 0
    /\ logged = 0
    /\ closed = <<>>
    /\ pc = [p \in Procs |-> "idle"]
    /\ call = [p \in Procs |-> NoCall]
    /\ loc = [p \in Procs |-> NoLocals]
    /\ mu = [w |-> {}, r |-> {}]
    /\ amu = {}
    /\ calls = 0
    /\ abs = EmptyMap
    /\ whole = EmptyMap
    /\ buf = <<>>
    /\ writes = <<>>

\* time passes
Tick ==
    /\ now < MaxTime
    /\ now' = now + 1
    /\ last' = <<"Tick">>
    /\ ret' = <<>>
    /\ UNCHANGED <<file, st, aof, items, hist, applied, logged, closed>>
    /\ UNCHANGED cvars

\* store.New(aofFilename): a first store, or a new one after Close
New(persist) ==
    /\ st = "none" \/ aof = "closed"
    /\ ~persist => file = <<>>
    /\ \E r \in {NewStore(file, now)} :
           IF ~persist
           THEN /\ st' = "live"
                /\ aof' = "nil"
                /\ items' = EmptyMap
                /\ hist' = EmptyMap
                /\ applied' = 0
                /\ ret' = [err |-> FALSE]
                /\ file' = file
           ELSE IF r.err
           THEN /\ st' = "failed"
                /\ aof' = "nil"
                /\ items' = EmptyMap
                /\ hist' = EmptyMap
                /\ applied' = r.applied
                /\ ret' = [err |-> TRUE]
                /\ file' = r.s.file
           ELSE /\ st' = "live"
                /\ aof' = "open"
                /\ items' = r.s.items
                /\ hist' = r.s.hist
                /\ applied' = r.applied
                /\ ret' = [err |-> FALSE]
                /\ file' = r.s.file
    /\ last' = <<"New", persist>>
    /\ UNCHANGED <<now, logged, closed>>
    /\ UNCHANGED cvars

\* Store.Set(key, value, ttl)
Set(key, value, ttl) ==
    /\ Usable
    /\ aof = "open" => logged < MaxLog
    /\ \E s \in {StoreSet(Cur, aof, FALSE, key, value, ttl, now)} :
           /\ items' = s.items
           /\ file' = s.file
           /\ hist' = s.hist
           /\ logged' = logged + Len(s.file) - Len(file)
    /\ last' = <<"Set", key, value, ttl>>
    /\ ret' = <<>>
    /\ closed' = <<>>
    /\ UNCHANGED <<now, st, aof, applied>>
    /\ UNCHANGED cvars

\* Store.Delete(key)
Delete(key) ==
    /\ Usable
    /\ aof = "open" => logged < MaxLog
    /\ \E s \in {StoreDelete(Cur, aof, FALSE, key)} :
           /\ items' = s.items
           /\ file' = s.file
           /\ hist' = s.hist
           /\ logged' = logged + Len(s.file) - Len(file)
    /\ last' = <<"Delete", key>>
    /\ ret' = <<>>
    /\ closed' = <<>>
    /\ UNCHANGED <<now, st, aof, applied>>
    /\ UNCHANGED cvars

\* a Get that deletes the expired entry it finds
Get_Reaping(key) ==
    /\ Usable
    /\ ret' = GetAt(items, key, now)
    /\ items' = IF key \in DOMAIN items /\ ~GetAt(items, key, now).found
                THEN DeleteItem(items, key) ELSE items
    /\ last' = <<"Get", key>>
    /\ closed' = <<>>
    /\ UNCHANGED <<now, file, st, aof, hist, applied, logged>>
    /\ UNCHANGED cvars

\* Store.Get(key)
Get(key) ==
    /\ Usable
    /\ ret' = GetAt(items, key, now)
    /\ last' = <<"Get", key>>
    /\ closed' = <<>>
    /\ UNCHANGED <<now, file, st, aof, items, hist, applied, logged>>
    /\ UNCHANGED cvars

\* Store.Exists(key)
Exists(key) ==
    /\ Usable
    /\ ret' = ExistsAt(items, key, now)
    /\ last' = <<"Exists", key>>
    /\ closed' = <<>>
    /\ UNCHANGED <<now, file, st, aof, items, hist, applied, logged>>
    /\ UNCHANGED cvars

\* a sweep that records a DELETE for a key it removes
DeleteExpired_Logging ==
    /\ Usable
    /\ items' = SweepItems(items, now)
    /\ LET gone == DOMAIN items \ DOMAIN SweepItems(items, now)
       IN  file' = IF gone = {} THEN file
                   ELSE RecordCommand(file, aof, FALSE,
                                      DeleteParts(CHOOSE k \in gone : TRUE))
    /\ last' = <<"DeleteExpired">>
    /\ ret' = <<>>
    /\ closed' = <<>>
    /\ UNCHANGED <<now, st, aof, hist, applied, logged>>
    /\ UNCHANGED cvars

\* Store.DeleteExpired()
DeleteExpired ==
    /\ Usable
    /\ items' = SweepItems(items, now)
    /\ last' = <<"DeleteExpired">>
    /\ ret' = <<>>
    /\ closed' = <<>>
    /\ UNCHANGED <<now, file, st, aof, hist, applied, logged>>
    /\ UNCHANGED cvars

\* Store.Close(): AOF.Close flushes, syncs and closes the file; on a file
\* already closed the sync fails, and on a writer that failed before
\* ("broken") the flush fails and the file stays open
Close ==
    /\ st = "live"
    /\ aof' = IF aof = "open" THEN "closed" ELSE aof
    /\ ret' = [err |-> aof \in {"closed", "broken"}]
    /\ closed' = IF aof = "open" THEN <<[items |-> items, at |-> now]>> ELSE closed
    /\ last' = <<"Close">>
    /\ UNCHANGED <<now, file, st, items, hist, applied, logged>>
    /\ UNCHANGED cvars

Next ==
    \/ Tick
    \/ \E persist \in BOOLEAN : New(persist)
    \/ \E key \in Keys, value \in Values, ttl \in TTLs : Set(key, value, ttl)
    \/ \E key \in Keys : Delete(key)
    \/ \E key \in Keys : Get(key)
    \/ \E key \in Keys : Exists(key)
    \/ DeleteExpired
    \/ Close

Spec == Init /\ [][Next]_vars

\* ----------------------------------------------------- concurrent callers

\* the variables of the store no concurrent step changes
frame == <<st, aof, last, ret, hist, applied, logged, closed, buf, writes>>

\* an exclusive lock that excludes nobody
CanLock_ExcludesNobody(p) == TRUE

\* an exclusive lock that waits for the readers only
CanLock_IgnoresWriters(p) == mu.r = {}

\* sync.RWMutex.Lock returns to p: nobody holds the lock
CanLock(p) == mu.w = {} /\ mu.r = {}

\* a shared lock that does not wait for the writer
CanRLock_IgnoresWriter(p) == TRUE

\* sync.RWMutex.RLock returns to p: nobody holds the lock exclusively
CanRLock(p) == mu.w = {}

\* a persister lock that excludes nobody
CanLockAof_ExcludesNobody(p) == TRUE

\* sync.Mutex.Lock on AOF.mu returns to p
CanLockAof(p) == amu = {}

\* Set and Delete returning after the map update, without recordCommand
AfterUpdate_SkipsWrite == "unlock"

\* where Set and Delete go on after the map update: recordCommand returns at
\* once without AOF, and else calls AOF.Write
AfterUpdate == IF aof = "nil" THEN "unlock" ELSE "alock"

\* the log files the server of the concurrent callers was started on
ConcLogs ==
    { <<>>,
      <<SET \o <<" ", "a", " ", "z", " ", "1", "s">>>> }

\* the server is up: store.New has replayed the log at time 0
ConcInit ==
    /\ now = 0
    /\ file \in ConcLogs
    /\ st = "live"
    /\ aof = "open"
    /\ items = NewStore(file, 0).s.items
    /\ last = <<"Init">>
    /\ ret = <<>>
    /\ hist = EmptyMap
    /\ applied = 0
    /\ logged = 0
    /\ closed = <<>>
    /\ pc = [p \in Procs |-> "idle"]
    /\ call = [p \in Procs |-> NoCall]
    /\ loc = [p \in Procs |-> NoLocals]
    /\ mu = [w |-> {}, r |-> {}]
    /\ amu = {}
    /\ calls = 0
    /\ abs = items
    /\ whole = [k \in DOMAIN items |-> {items[k]}]
    /\ buf = <<>>
    /\ writes = <<>>

\* time passes
ConcTick ==
    /\ now < MaxTime
    /\ now' = now + 1
    /\ UNCHANGED <<file, items, frame, cvars>>

\* a connection calls Set(key, value, ttl)
CallSet(p, key, ttl) ==
    /\ pc[p] = "idle"
    /\ calls < MaxCalls
    /\ call' = [call EXCEPT ![p] = [op |-> "Set", key |-> key,
                                     value |-> ValueOf(p), ttl |-> ttl]]
    /\ pc' = [pc EXCEPT ![p] = "lock"]
    /\ calls' = calls + 1
    /\ UNCHANGED <<now, file, items, frame, loc, mu, amu, abs, whole>>

\* a connection calls Delete(key)
CallDelete(p, key) ==
    /\ pc[p] = "idle"
    /\ calls < MaxCalls
    /\ call' = [call EXCEPT ![p] = [op |-> "Delete", key |-> key]]
    /\ pc' = [pc EXCEPT ![p] = "lock"]
    /\ calls' = calls + 1
    /\ UNCHANGED <<now, file, items, frame, loc, mu, amu, abs, whole>>

\* a connection calls Get(key) or Exists(key)
CallRead(p, op, key) ==
    /\ pc[p] = "idle"
    /\ calls < MaxCalls
    /\ call' = [call EXCEPT ![p] = [op |-> op, key |-> key]]
    /\ pc' = [pc EXCEPT ![p] = "rlock"]
    /\ calls' = calls + 1
    /\ UNCHANGED <<now, file, items, frame, loc, mu, amu, abs, whole>>

\* the sweep loop calls DeleteExpired()
CallSweep ==
    /\ pc[Sweeper] = "idle"
    /\ calls < MaxCalls
    /\ call' = [call EXCEPT ![Sweeper] = [op |-> "DeleteExpired"]]
    /\ pc' = [pc EXCEPT ![Sweeper] = "lock"]
    /\ calls' = calls + 1
    /\ UNCHANGED <<now, file, items, frame, loc, mu, amu, abs, whole>>

\* s.mu.Lock() of Set, Delete and DeleteExpired
Lock(p) ==
    /\ pc[p] = "lock"
    /\ CanLock(p)
    /\ mu' = [mu EXCEPT !.w = @ \cup {p}]
    /\ pc' = [pc EXCEPT ![p] = CASE call[p].op = "Set" -> "put1"
                                 [] call[p].op = "Delete" -> "del"
                                 [] OTHER -> "now"]
    /\ UNCHANGED <<now, file, items, frame, call, loc, amu, calls, abs, whole>>

\* Set: the expiration from time.Now(), and the first word of the map entry,
\* its Value (the entry is several words wide: its store is not one step)
Put1(p) ==
    /\ pc[p] = "put1"
    /\ LET c == call[p]
           expiration == IF c.ttl > 0 THEN <<now + c.ttl>> ELSE <<>>
           old == IF c.key \in DOMAIN items THEN items[c.key].Expiration ELSE <<>>
           pair == [Value |-> c.value, Expiration |-> expiration]
       IN  /\ items' = [k \in DOMAIN items \cup {c.key} |->
                          IF k = c.key THEN [Value |-> c.value, Expiration |-> old]
                          ELSE items[k]]
           /\ loc' = [loc EXCEPT ![p] = [expiration |-> expiration]]
           /\ abs' = SetItem(abs, c.key, c.value, c.ttl, now)
           /\ whole' = [k \in DOMAIN whole \cup {c.key} |->
                          IF k \in DOMAIN whole
                          THEN (IF k = c.key THEN whole[k] \cup {pair} ELSE whole[k])
                          ELSE {pair}]
    /\ pc' = [pc EXCEPT ![p] = "put2"]
    /\ UNCHANGED <<now, file, frame, call, mu, amu, calls>>

\* Set: the rest of the map entry, its Expiration
Put2(p) ==
    /\ pc[p] = "put2"
    /\ LET c == call[p]
       IN  items' = [k \in DOMAIN items \cup {c.key} |->
                       IF k = c.key
                       THEN [Value |-> IF k \in DOMAIN items THEN items[k].Value
                                       ELSE c.value,
                             Expiration |-> loc[p].expiration]
                       ELSE items[k]]
    /\ pc' = [pc EXCEPT ![p] = AfterUpdate]
    /\ UNCHANGED <<now, file, frame, call, loc, mu, amu, calls, abs, whole>>

\* Delete: delete(s.items, key)
Del(p) ==
    /\ pc[p] = "del"
    /\ items' = DeleteItem(items, call[p].key)
    /\ abs' = DeleteItem(abs, call[p].key)
    /\ pc' = [pc EXCEPT ![p] = AfterUpdate]
    /\ UNCHANGED <<now, file, frame, call, loc, mu, amu, calls, whole>>

\* AOF.Write: a.mu.Lock()
LockAof(p) ==
    /\ pc[p] = "alock"
    /\ CanLockAof(p)
    /\ amu' = amu \cup {p}
    /\ pc' = [pc EXCEPT ![p] = "awrite"]
    /\ UNCHANGED <<now, file, items, frame, call, loc, mu, calls, abs, whole>>

\* AOF.Write: WriteString, Flush and Sync of the command of the call
WriteAof(p) ==
    /\ pc[p] = "awrite"
    /\ LET c == call[p]
           parts == IF c.op = "Set" THEN SetParts(c.key, c.value, c.ttl)
                    ELSE DeleteParts(c.key)
       IN  file' = RecordCommand(file, aof, FALSE, parts)
    /\ pc' = [pc EXCEPT ![p] = "aunlock"]
    /\ UNCHANGED <<now, items, frame, call, loc, mu, amu, calls, abs, whole>>

\* AOF.Write returns: the deferred a.mu.Unlock()
UnlockAof(p) ==
    /\ pc[p] = "aunlock"
    /\ amu' = amu \ {p}
    /\ pc' = [pc EXCEPT ![p] = "unlock"]
    /\ UNCHANGED <<now, file, items, frame, call, loc, mu, calls, abs, whole>>

\* Set, Delete and DeleteExpired return: the deferred s.mu.Unlock()
Unlock(p) ==
    /\ pc[p] = "unlock"
    /\ mu' = [mu EXCEPT !.w = @ \ {p}]
    /\ pc' = [pc EXCEPT ![p] = "idle"]
    /\ call' = [call EXCEPT ![p] = NoCall]
    /\ loc' = [loc EXCEPT ![p] = NoLocals]
    /\ UNCHANGED <<now, file, items, frame, amu, calls, abs, whole>>

\* s.mu.RLock() of Get and Exists
RLock(p) ==
    /\ pc[p] = "rlock"
    /\ CanRLock(p)
    /\ mu' = [mu EXCEPT !.r = @ \cup {p}]
    /\ pc' = [pc EXCEPT ![p] = "read"]
    /\ UNCHANGED <<now, file, items, frame, call, loc, amu, calls, abs, whole>>

\* Get and Exists: item, exists := s.items[key]
Read(p) ==
    /\ pc[p] = "read"
    /\ loc' = [loc EXCEPT ![p] =
                 [item |-> IF call[p].key \in DOMAIN items
                           THEN <<items[call[p].key]>> ELSE <<>>]]
    /\ pc' = [pc EXCEPT ![p] = "check"]
    /\ UNCHANGED <<now, file, items, frame, call, mu, amu, calls, abs, whole>>

\* Get and Exists: the expiration of the item read against time.Now(), and
\* the result; beside it, what the call returns on the store abs now
Check(p) ==
    /\ pc[p] = "check"
    /\ LET item == loc[p].item
           live == /\ item # <<>>
                   /\ ~(item[1].Expiration # <<>>
                          /\ After(now, item[1].Expiration[1]))
           res == IF call[p].op = "Exists" THEN live
                  ELSE IF live THEN [value |-> item[1].Value, found |-> TRUE]
                  ELSE [value |-> Nil, found |-> FALSE]
           expect == IF call[p].op = "Exists" THEN ExistsAt(abs, call[p].key, now)
                     ELSE GetAt(abs, call[p].key, now)
       IN  loc' = [loc EXCEPT ![p] = [item |-> item, res |-> res, expect |-> expect]]
    /\ pc' = [pc EXCEPT ![p] = "runlock"]
    /\ UNCHANGED <<now, file, items, frame, call, mu, amu, calls, abs, whole>>

\* Get and Exists return: the deferred s.mu.RUnlock()
RUnlock(p) ==
    /\ pc[p] = "runlock"
    /\ mu' = [mu EXCEPT !.r = @ \ {p}]
    /\ pc' = [pc EXCEPT ![p] = "idle"]
    /\ call' = [call EXCEPT ![p] = NoCall]
    /\ loc' = [loc EXCEPT ![p] = NoLocals]
    /\ UNCHANGED <<now, file, items, frame, amu, calls, abs, whole>>

\* DeleteExpired: now := time.Now(), and the range over the map starts
SweepNow(p) ==
    /\ pc[p] = "now"
    /\ loc' = [loc EXCEPT ![p] = [t |-> now, todo |-> DOMAIN items]]
    /\ abs' = SweepItems(abs, now)
    /\ pc' = [pc EXCEPT ![p] = "range"]
    /\ UNCHANGED <<now, file, items, frame, call, mu, amu, calls, whole>>

\* DeleteExpired: the range yields the next key, in any order, with a copy
\* of its item, or ends
Range(p) ==
    /\ pc[p] = "range"
    /\ LET todo == loc[p].todo \cap DOMAIN items
       IN  IF todo = {}
           THEN /\ pc' = [pc EXCEPT ![p] = "unlock"]
                /\ loc' = loc
           ELSE \E k \in todo :
                  /\ loc' = [loc EXCEPT ![p] = [t |-> loc[p].t, todo |-> todo \ {k},
                                                 key |-> k, item |-> items[k]]]
                  /\ pc' = [pc EXCEPT ![p] = "body"]
    /\ UNCHANGED <<now, file, items, frame, call, mu, amu, calls, abs, whole>>

\* a loop body that deletes nothing
Body_DeletesNothing(p) ==
    /\ pc[p] = "body"
    /\ items' = items
    /\ pc' = [pc EXCEPT ![p] = "range"]
    /\ UNCHANGED <<now, file, frame, call, loc, mu, amu, calls, abs, whole>>

\* DeleteExpired: the loop body on the item the range yielded
Body(p) ==
    /\ pc[p] = "body"
    /\ items' = IF /\ loc[p].item.Expiration # <<>>
                   /\ After(loc[p].t, loc[p].item.Expiration[1])
                THEN DeleteItem(items, loc[p].key)
                ELSE items
    /\ pc' = [pc EXCEPT ![p] = "range"]
    /\ UNCHANGED <<now, file, frame, call, loc, mu, amu, calls, abs, whole>>

ConcNext ==
    \/ ConcTick
    \/ \E p \in Clients, key \in Keys, ttl \in TTLs : CallSet(p, key, ttl)
    \/ \E p \in Clients, key \in Keys : CallDelete(p, key)
    \/ \E p \in Clients, op \in {"Get", "Exists"}, key \in Keys : CallRead(p, op, key)
    \/ CallSweep
    \/ \E p \in Procs :
         \/ Lock(p)
         \/ Put1(p)
         \/ Put2(p)
         \/ Del(p)
         \/ LockAof(p)
         \/ WriteAof(p)
         \/ UnlockAof(p)
         \/ Unlock(p)
         \/ RLock(p)
         \/ Read(p)
         \/ Check(p)
         \/ RUnlock(p)
         \/ SweepNow(p)
         \/ Range(p)
         \/ Body(p)

ConcSpec == ConcInit /\ [][ConcNext]_vars

\* --------------------------------------- the persister's lock, and Close

\* the variables of the store no step of the callers below changes
fixed == <<now, st, last, ret, hist, applied, logged, closed>>

\* the calls of the callers below: one key, no ttl
LockKeys == {<<"a">>}
LockTTLs == {0}

\* the string AOF.Write hands to WriteString for the call of p: the
\* command recordCommand joined, and a line end
WriteText(p) ==
    LET c == call[p]
        parts == IF c.op = "Set" THEN SetParts(c.key, c.value, c.ttl)
                 ELSE DeleteParts(c.key)
    IN  Join(parts, <<" ">>) \o <<"\n">>

\* AOF.Write: a.file is not nil, a.isLoading is false, a.mu.Lock()
WriteLock(p) ==
    /\ pc[p] = "alock"
    /\ CanLockAof(p)
    /\ amu' = amu \cup {p}
    /\ writes' = writes \o ScanLines(WriteText(p))
    /\ pc' = [pc EXCEPT ![p] = "ahead"]
    /\ UNCHANGED <<file, aof, items, fixed, call, loc, mu, calls, abs, whole, buf>>

\* AOF.Write: WriteString. After a flush that failed the bufio.Writer keeps
\* the bytes and the error, and WriteString returns that error (the buffer
\* is empty between writes otherwise). Else it copies the string into the
\* buffer; the copy is not one step: here its first half
WriteHead(p) ==
    /\ pc[p] = "ahead"
    /\ IF buf # <<>>
       THEN /\ loc' = [loc EXCEPT ![p] = [err |-> TRUE]]
            /\ pc' = [pc EXCEPT ![p] = "aunlock"]
            /\ buf' = buf
       ELSE /\ buf' = buf \o SubSeq(WriteText(p), 1, Len(WriteText(p)) \div 2)
            /\ pc' = [pc EXCEPT ![p] = "atail"]
            /\ loc' = loc
    /\ UNCHANGED <<file, aof, items, fixed, call, mu, amu, calls, abs, whole, writes>>

\* AOF.Write: the rest of the copy
WriteTail(p) ==
    /\ pc[p] = "atail"
    /\ buf' = buf \o SubSeq(WriteText(p), Len(WriteText(p)) \div 2 + 1,
                             Len(WriteText(p)))
    /\ pc' = [pc EXCEPT ![p] = "aflush"]
    /\ UNCHANGED <<file, aof, items, fixed, call, loc, mu, amu, calls, abs, whole, writes>>

\* AOF.Write: Flush and Sync. On a closed file the flush fails, the buffer
\* keeps its bytes, and Write returns the error
WriteFlush(p) ==
    /\ pc[p] = "aflush"
    /\ IF aof = "open"
       THEN /\ file' = file \o ScanLines(buf)
            /\ buf' = <<>>
       ELSE UNCHANGED <<file, buf>>
    /\ loc' = [loc EXCEPT ![p] = [err |-> aof # "open"]]
    /\ pc' = [pc EXCEPT ![p] = "aunlock"]
    /\ UNCHANGED <<aof, items, fixed, call, mu, amu, calls, abs, whole, writes>>

\* Server.Start returns: its deferred function calls Store.Close, once
CallClose ==
    /\ pc[Closer] = "idle"
    /\ aof = "open"
    /\ call' = [call EXCEPT ![Closer] = [op |-> "Close"]]
    /\ pc' = [pc EXCEPT ![Closer] = "clock"]
    /\ UNCHANGED <<file, aof, items, fixed, loc, mu, amu, calls, abs, whole, buf, writes>>

\* AOF.Close: a.file is not nil, a.mu.Lock()
CloseLock(p) ==
    /\ pc[p] = "clock"
    /\ CanLockAof(p)
    /\ amu' = amu \cup {p}
    /\ pc' = [pc EXCEPT ![p] = "cflush"]
    /\ UNCHANGED <<file, aof, items, fixed, call, loc, mu, calls, abs, whole, buf, writes>>

\* a Close that waits, inside AOF.mu, until nobody holds the store's lock
CloseFlush_WaitsForStoreLock(p) ==
    /\ pc[p] = "cflush"
    /\ CanLock(p)
    /\ IF aof = "open"
       THEN /\ file' = file \o ScanLines(buf)
            /\ buf' = <<>>
       ELSE UNCHANGED <<file, buf>>
    /\ pc' = [pc EXCEPT ![p] = "cclose"]
    /\ UNCHANGED <<aof, items, fixed, call, loc, mu, amu, calls, abs, whole, writes>>

\* AOF.Close: Flush and Sync
CloseFlush(p) ==
    /\ pc[p] = "cflush"
    /\ IF aof = "open"
       THEN /\ file' = file \o ScanLines(buf)
            /\ buf' = <<>>
       ELSE UNCHANGED <<file, buf>>
    /\ pc' = [pc EXCEPT ![p] = "cclose"]
    /\ UNCHANGED <<aof, items, fixed, call, loc, mu, amu, calls, abs, whole, writes>>

\* AOF.Close: a.file.Close()
CloseFile(p) ==
    /\ pc[p] = "cclose"
    /\ aof' = "closed"
    /\ pc' = [pc EXCEPT ![p] = "cunlock"]
    /\ UNCHANGED <<file, items, fixed, call, loc, mu, amu, calls, abs, whole, buf, writes>>

\* AOF.Close returns: the deferred a.mu.Unlock()
CloseUnlock(p) ==
    /\ pc[p] = "cunlock"
    /\ amu' = amu \ {p}
    /\ pc' = [pc EXCEPT ![p] = "idle"]
    /\ call' = [call EXCEPT ![p] = NoCall]
    /\ UNCHANGED <<file, aof, items, fixed, loc, mu, calls, abs, whole, buf, writes>>

\* the steps of the caller p inside its call
LockStep(p) ==
    \/ Lock(p)
    \/ Put1(p)
    \/ Put2(p)
    \/ Del(p)
    \/ WriteLock(p)
    \/ WriteHead(p)
    \/ WriteTail(p)
    \/ WriteFlush(p)
    \/ UnlockAof(p)
    \/ Unlock(p)
    \/ RLock(p)
    \/ Read(p)
    \/ Check(p)
    \/ RUnlock(p)
    \/ SweepNow(p)
    \/ Range(p)
    \/ Body(p)
    \/ CloseLock(p)
    \/ CloseFlush(p)
    \/ CloseFile(p)
    \/ CloseUnlock(p)

LockNext ==
    \/ \E p \in Clients, key \in LockKeys, ttl \in LockTTLs : CallSet(p, key, ttl)
    \/ \E p \in Clients, key \in LockKeys : CallDelete(p, key)
    \/ \E p \in Clients, op \in {"Get", "Exists"}, key \in LockKeys : CallRead(p, op, key)
    \/ CallSweep
    \/ CallClose
    \/ \E p \in Procs : LockStep(p)

LockSpec == ConcInit /\ [][LockNext]_vars

\* the scheduler runs every caller that can take a step, and a caller that
\* can take a lock again and again gets it
LiveSpec ==
    /\ LockSpec
    /\ \A p \in Procs :
          /\ WF_vars(LockStep(p))
          /\ SF_vars(Lock(p) \/ RLock(p) \/ WriteLock(p) \/ CloseLock(p))

\* ------------------------------------------------- the sweep loop, forever

\* the connections start at most MaxSweepCalls calls beside the sweep loop
MaxSweepCalls == 1

\* the calls of the connections beside the sweep loop
SweepKeys == {<<"a">>}
SweepTTLs == {0, 1}

\* the cleanup goroutine of Server.Start: its endless loop calls
\* DeleteExpired() again after each sleep
SweepLoop ==
    /\ pc[Sweeper] = "idle"
    /\ call' = [call EXCEPT ![Sweeper] = [op |-> "DeleteExpired"]]
    /\ pc' = [pc EXCEPT ![Sweeper] = "lock"]
    /\ UNCHANGED <<now, file, items, frame, loc, mu, amu, calls, abs, whole>>

\* the steps of the caller p inside its call
SweepStep(p) ==
    \/ Lock(p)
    \/ Put1(p)
    \/ Put2(p)
    \/ Del(p)
    \/ LockAof(p)
    \/ WriteAof(p)
    \/ UnlockAof(p)
    \/ Unlock(p)
    \/ RLock(p)
    \/ Read(p)
    \/ Check(p)
    \/ RUnlock(p)
    \/ SweepNow(p)
    \/ Range(p)
    \/ Body(p)

SweepNext ==
    \/ ConcTick
    \/ \E p \in Clients, key \in SweepKeys, ttl \in SweepTTLs :
         calls < MaxSweepCalls /\ CallSet(p, key, ttl)
    \/ \E p \in Clients, key \in SweepKeys :
         calls < MaxSweepCalls /\ CallDelete(p, key)
    \/ \E p \in Clients, op \in {"Get", "Exists"}, key \in SweepKeys :
         calls < MaxSweepCalls /\ CallRead(p, op, key)
    \/ SweepLoop
    \/ \E p \in Procs : SweepStep(p)

\* the sweep loop never ends, the scheduler runs every caller that can take
\* a step, and a caller that can take the store's lock again and again
\* gets it
SweepSpec ==
    /\ ConcInit
    /\ [][SweepNext]_vars
    /\ WF_vars(SweepLoop)
    /\ \A p \in Procs :
          /\ WF_vars(SweepStep(p))
          /\ SF_vars(Lock(p) \/ RLock(p))

\* ------------------------------------------- commands and failing writes

\* the replies of the server
OK == <<"O", "K">>
NIL == <<"N", "I", "L">>
One == <<"1">>
Zero == <<"0">>
ErrEmpty == <<"ERROR: Empty command">>
ErrSet == <<"ERROR: SET requires key and value">>
ErrGet == <<"ERROR: GET requires key">>
ErrDelete == <<"ERROR: DELETE requires key">>
ErrExists == <<"ERROR: EXISTS requires key">>
ErrUnknown == <<"ERROR: Unknown command">>

\* the command lines connections send
WireCommands ==
    { SET \o <<" ", "a", " ", "x">>,
      <<"s", "e", "t", " ", "a", " ", "x", " ", "1", "s">>,
      SET \o <<" ", "b", " ", "x", " ", "1", "x">>,
      SET \o <<" ", "b">>,
      DELETE \o <<" ", "a">>,
      <<"G", "E", "T", " ", "a">>,
      <<"E", "X", "I", "S", "T", "S", " ", "b">> }

\* the log files the server may find when it starts
WireLogs ==
    { <<>>,
      <<SET \o <<" ", "a", " ", "x", " ", "y", " ", "1", "x">>>> }

\* what the disk does to a write: it takes it, fails the write of the flush,
\* or fails the sync after the write
Disks == {"ok", "flush", "sync"}

\* AOF.Write with the disk's part in it: [file, aof, failed]. A flush that
\* fails leaves its error in the bufio.Writer, which then fails every write;
\* the file of a closed AOF fails the flush; a sync fails after the write.
AofWriteResult(f, a, isLoading, command, disk) ==
    IF a = "nil" \/ isLoading THEN [file |-> f, aof |-> a, failed |-> FALSE]
    ELSE IF a \in {"closed", "broken"} THEN [file |-> f, aof |-> a, failed |-> TRUE]
    ELSE IF disk = "flush" THEN [file |-> f, aof |-> "broken", failed |-> TRUE]
    ELSE [file |-> f \o ScanLines(command \o <<"\n">>), aof |-> a,
          failed |-> disk = "sync"]

\* a Set or Delete that undoes its map update when the write fails
Mutation_RollsBack(s, a, its, parts, disk) ==
    LET w == AofWriteResult(s.file, a, FALSE, Join(parts, <<" ">>), disk)
    IN  [items |-> IF w.failed THEN s.items ELSE its,
         file |-> w.file, aof |-> w.aof, failed |-> w.failed]

\* Set and Delete on the store s: the map update its stands, then
\* recordCommand(parts), which logs a failure of the write and returns:
\* [items, file, aof, failed]
Mutation(s, a, its, parts, disk) ==
    LET w == AofWriteResult(s.file, a, FALSE, Join(parts, <<" ">>), disk)
    IN  [items |-> its, file |-> w.file, aof |-> w.aof, failed |-> w.failed]

\* the arguments of a SET that keeps its value short: the last of more than
\* three tokens is never part of the value
SetArgs_DropsLastToken(parts) ==
    LET n == Len(parts)
        parsed == ParseDuration(parts[n])
    IN  IF n > 3
        THEN [key |-> parts[2], value |-> Join(SubSeq(parts, 3, n - 1), <<" ">>),
              ttl |-> IF parsed.ok THEN parsed.d ELSE 0]
        ELSE [key |-> parts[2], value |-> Join(SubSeq(parts, 3, n), <<" ">>),
              ttl |-> 0]

\* handleCommand, case SET: key, value and ttl from at least three tokens
SetArgs(parts) ==
    LET n == Len(parts)
        parsed == ParseDuration(parts[n])
    IN  IF n > 3 /\ parsed.ok
        THEN [key |-> parts[2], value |-> Join(SubSeq(parts, 3, n - 1), <<" ">>),
              ttl |-> parsed.d]
        ELSE [key |-> parts[2], value |-> Join(SubSeq(parts, 3, n), <<" ">>),
              ttl |-> 0]

\* Server.handleCommand on the tokens parts of its command, on the store
\* s = [items, file] at time t: [items, file, aof, failed, reply]
HandleParts(s, a, parts, t, disk) ==
    LET n == Len(parts)
        same == [items |-> s.items, file |-> s.file, aof |-> a, failed |-> FALSE]
        Reply(r, reply) == [items |-> r.items, file |-> r.file, aof |-> r.aof,
                            failed |-> r.failed, reply |-> reply]
    IN  IF n = 0 THEN Reply(same, ErrEmpty)
        ELSE CASE ToUpper(parts[1]) = SET ->
                    IF n < 3 THEN Reply(same, ErrSet)
                    ELSE LET c == SetArgs(parts)
                         IN  Reply(Mutation(s, a,
                                     SetItem(s.items, c.key, c.value, c.ttl, t),
                                     SetParts(c.key, c.value, c.ttl), disk), OK)
               [] ToUpper(parts[1]) = <<"G", "E", "T">> ->
                    IF n # 2 THEN Reply(same, ErrGet)
                    ELSE IF ~GetAt(s.items, parts[2], t).found THEN Reply(same, NIL)
                    ELSE Reply(same, GetAt(s.items, parts[2], t).value)
               [] ToUpper(parts[1]) = DELETE ->
                    IF n # 2 THEN Reply(same, ErrDelete)
                    ELSE Reply(Mutation(s, a, DeleteItem(s.items, parts[2]),
                                        DeleteParts(parts[2]), disk), OK)
               [] ToUpper(parts[1]) = <<"E", "X", "I", "S", "T", "S">> ->
                    IF n # 2 THEN Reply(same, ErrExists)
                    ELSE IF ExistsAt(s.items, parts[2], t) THEN Reply(same, One)
                    ELSE Reply(same, Zero)
               [] OTHER -> Reply(same, ErrUnknown)

\* Server.handleCommand(cmd): parts := strings.Fields(cmd), split once
HandleCommand(s, a, cmd, t, disk) ==
    CHOOSE r \in {HandleParts(s, a, parts, t, disk) : parts \in {Fields(cmd)}} : TRUE

\* a connection sends cmd and gets its reply, on a store New returned; Store
\* has no closed flag, and a command that comes after Close runs like any.
\* The disk fails where there is a write to fail.
Command(cmd, disk) ==
    /\ st = "live"
    /\ disk # "ok" => aof = "open"
    /\ \E r \in {HandleCommand(Cur, aof, cmd, now, disk)} :
           /\ Len(r.file) > Len(file) => logged < MaxLog
           /\ disk # "ok" => r.failed
           /\ items' = r.items
           /\ file' = r.file
           /\ aof' = r.aof
           /\ logged' = logged + Len(r.file) - Len(file)
           /\ ret' = [reply |-> r.reply, failed |-> r.failed]
    /\ last' = <<"Command", cmd>>
    /\ closed' = IF aof = "open" THEN <<>> ELSE closed
    /\ UNCHANGED <<now, st, hist, applied>>
    /\ UNCHANGED cvars

WireNext ==
    \/ Tick
    \/ New(TRUE)
    \/ \E cmd \in WireCommands, disk \in Disks : Command(cmd, disk)
    \/ Close

\* before server.New
WireInit ==
    /\ now = 0
    /\ file \in WireLogs
    /\ st = "none"
    /\ aof = "nil"
    /\ items = EmptyMap
    /\ last = <<"Init">>
    /\ ret = <<>>
    /\ hist = EmptyMap
    /\ applied = 0
    /\ logged = 0
    /\ closed = <<>>
    /\ pc = [p \in Procs |-> "idle"]
    /\ call = [p \in Procs |-> NoCall]
    /\ loc = [p \in Procs |-> NoLocals]
    /\ mu = [w |-> {}, r |-> {}]
    /\ amu = {}
    /\ calls = 0
    /\ abs = EmptyMap
    /\ whole = EmptyMap
    /\ buf = <<>>
    /\ writes = <<>>

WireSpec == WireInit /\ [][WireNext]_vars

\* ---------------------------------------------------------------- claims

\* what Get(key) returns in the current state
GetNow(key) == GetAt(items, key, now)

\* the reply (value, true)
Found(value) == [value |-> value, found |-> TRUE]

\* C1: after Set(k, v, ttl) with ttl <= 0, Get(k) returns (v, true) in every
\* later state, whatever time passed and whatever sweeps or operations on
\* other keys happened, until a Delete(k) or a later Set on k.
C1_PermanentUntilDelete ==
    \A k \in DOMAIN hist : hist[k].permanent => GetNow(k) = Found(hist[k].value)

\* C1 happens: a key set without ttl, at the end of time, right after a sweep
C1_Witness ==
    /\ last = <<"DeleteExpired">>
    /\ now = MaxTime
    /\ \E k \in DOMAIN hist : hist[k].permanent
    /\ DOMAIN hist # DOMAIN items

\* C2 as stated: after Set(k, v, ttl) with ttl > 0 at t0, Get(k) returns
\* (v, true) at every instant before t0 + ttl and not found at t0 + ttl and
\* at every later instant.
C2_ExpiresAtDeadline ==
    \A k \in DOMAIN hist :
        ~hist[k].permanent =>
            /\ now < hist[k].due => GetNow(k) = Found(hist[k].value)
            /\ now >= hist[k].due => ~GetNow(k).found

\* C2 amended: after Set(k, v, ttl) with ttl > 0 at t0, Get(k) returns
\* (v, true) at every instant up to and including t0 + ttl, and not found at
\* every instant after t0 + ttl, with or without a sweep.
C2_ExpiresAfterDeadline ==
    \A k \in DOMAIN hist :
        ~hist[k].permanent =>
            /\ now <= hist[k].due => GetNow(k) = Found(hist[k].value)
            /\ now > hist[k].due => ~GetNow(k).found

\* C2 happens: the clock stands at t0 + ttl of a key a Set gave a ttl, and no
\* sweep has removed anything
C2_Witness ==
    /\ \E k \in DOMAIN hist : ~hist[k].permanent /\ now = hist[k].due
    /\ \E k \in DOMAIN hist : ~hist[k].permanent /\ now > hist[k].due
    /\ DOMAIN hist = DOMAIN items

\* the entries of the map its that are not due at instant t or before it
KeptAfter(its, t) ==
    {k \in DOMAIN its : its[k].Expiration = <<>> \/ its[k].Expiration[1] > t}

\* the entries of the map its that are not due before instant t
KeptFrom(its, t) ==
    {k \in DOMAIN its : its[k].Expiration = <<>> \/ its[k].Expiration[1] >= t}

\* C3 as stated: a DeleteExpired at instant T removes exactly the entries with
\* an expiration E <= T and leaves all others as they were.
C3_SweepRemovesAtOrBefore ==
    [][last' = <<"DeleteExpired">> =>
         /\ DOMAIN items' = KeptAfter(items, now)
         /\ \A k \in DOMAIN items' : items'[k] = items[k]]_vars

\* C3 amended: a DeleteExpired at instant T removes exactly the entries with
\* an expiration E < T, and leaves every entry with E >= T (E = T too) and
\* every entry without expiration in the map, value and expiration unchanged.
C3_SweepRemovesBefore ==
    [][last' = <<"DeleteExpired">> =>
         /\ DOMAIN items' = KeptFrom(items, now)
         /\ \A k \in DOMAIN items' : items'[k] = items[k]]_vars

\* C3 happens: a sweep removed an entry and kept one that expires at the
\* instant of the sweep
C3_Witness ==
    /\ last = <<"DeleteExpired">>
    /\ DOMAIN hist # DOMAIN items
    /\ \E k \in DOMAIN items : items[k].Expiration = <<now>>

\* C4: Delete(k) of a key that is not in the map, on a store with an open
\* AOF, appends no line to the log and leaves the map unchanged.
C4_DeleteAbsentNotLogged ==
    [][(last'[1] = "Delete" /\ aof = "open" /\ last'[2] \notin DOMAIN items)
          => (file' = file /\ items' = items)]_vars

\* C5: after Close and a reopen on the same log, Get(k) returns for every key
\* the found flag and the value it returned just before Close, except for
\* keys whose ttl elapsed in the meantime.
C5_ReopenRestores ==
    (last = <<"New", TRUE>> /\ closed # <<>>) =>
        /\ st = "live"
        /\ \A k \in Keys \cup DOMAIN closed[1].items \cup DOMAIN items :
              LET before == GetAt(closed[1].items, k, closed[1].at)
                  elapsed == /\ before.found
                             /\ ~GetAt(closed[1].items, k, now).found
              IN  ~elapsed => GetNow(k) = before

\* a line with a token that is no SET with at least three tokens and no DELETE
\* with exactly two
ViolatesGrammar(line) ==
    LET parts == Fields(line)
    IN  /\ Len(parts) > 0
        /\ ~(ToUpper(parts[1]) = SET /\ Len(parts) >= 3)
        /\ ~(ToUpper(parts[1]) = DELETE /\ Len(parts) = 2)

\* C8: when the log holds a line that violates the grammar, New returns an
\* error and no store, and no line of the log was applied to a map.
C8_BadLogFailsBeforeApply ==
    (last = <<"New", TRUE>> /\ \E i \in 1..Len(file) : ViolatesGrammar(file[i]))
        => (st = "failed" /\ ret.err /\ applied = 0 /\ items = EmptyMap)

\* C8 happens: New failed on a log whose first line is good and a later bad
C8_Witness ==
    /\ last = <<"New", TRUE>>
    /\ st = "failed"
    /\ Len(file) > 1
    /\ ~ViolatesGrammar(file[1])

\* C9: every Set on a store with an open AOF appends exactly one line to the
\* log, a SET line for the key of the call, whether or not the key was in
\* the map and whether or not the value changes.
C9_SetAppendsOneLine ==
    [][(last'[1] = "Set" /\ aof = "open") =>
          /\ Len(file') = Len(file) + 1
          /\ SubSeq(file', 1, Len(file)) = file
          /\ Fields(file'[Len(file')])[1] = SET
          /\ Fields(file'[Len(file')])[2] = last'[2]]_vars

\* C9 happens: a Set appended, to a log that held it, the line of a key and
\* value the map held
C9_Witness ==
    /\ last[1] = "Set"
    /\ aof = "open"
    /\ Len(file) = 2
    /\ file[1] = file[2]

\* C10: DeleteExpired appends nothing to the log.
C10_SweepLogsNothing ==
    [][last' = <<"DeleteExpired">> => file' = file]_vars

\* C10 happens: a sweep removed an entry of a store with an open AOF
C10_Witness ==
    /\ last = <<"DeleteExpired">>
    /\ aof = "open"
    /\ DOMAIN hist # DOMAIN items

\* C6: under every interleaving of concurrent Set, Delete, Get, Exists and
\* DeleteExpired calls the store is linearizable. abs is the map of the
\* sequential execution that applies each call as a whole at one instant
\* inside the call (SetItem, DeleteItem, SweepItems), and expect is what a Get
\* or Exists returns on abs at its instant. Whenever no call holds the
\* exclusive lock the map equals abs (no update is lost, concurrent Sets all
\* remain, a contended key carries the value of one of its Sets), and every
\* Get and Exists returns what the sequential execution returns.
C6_Linearizable ==
    /\ mu.w = {} => items = abs
    /\ \A p \in Clients : pc[p] = "runlock" => loc[p].res = loc[p].expect

\* two Sets on one key overlap: one has updated the map and the log and is
\* about to return, the other waits for the lock
C6_Witness ==
    \E p \in Clients, q \in Clients :
      /\ pc[p] = "unlock" /\ call[p].op = "Set"
      /\ pc[q] = "lock" /\ call[q].op = "Set"
      /\ call[p].key = call[q].key
      /\ items[call[p].key].Value = call[p].value

\* C7: while a Set overwrites an entry (v1, e1) by (v2, e2), a concurrent Get
\* or Exists decides on a whole pair: the item it read and judges against the
\* clock is a pair that the log replay or some Set stored for the key as one
\* unit, never v2 with e1 or v1 with e2.
C7_ReadersSeeWholePairs ==
    \A p \in Clients :
      (pc[p] \in {"check", "runlock"} /\ loc[p].item # <<>>)
        => loc[p].item[1] \in whole[call[p].key]

\* a Set is half way through overwriting an entry, the map holds the new
\* value with the old expiration, and a Get or Exists of the key waits
C7_Witness ==
    \E w \in Clients, r \in Clients :
      /\ pc[w] = "put2" /\ pc[r] = "rlock"
      /\ call[r].key = call[w].key
      /\ Cardinality(whole[call[w].key]) >= 2
      /\ items[call[w].key] \notin whole[call[w].key]

\* C12: replay does not log again. New leaves the log as it found it,
\* whatever it replays, and so does Close, so that opening and closing a store
\* any number of times leaves the log unchanged; and the first Set or Delete
\* on the store New returned appends its line again.
C12_ReplayDoesNotRelog ==
    [][/\ last'[1] \in {"New", "Close"} => file' = file
       /\ (last = <<"New", TRUE>> /\ st = "live" /\ last'[1] \in {"Set", "Delete"})
             => Len(file') = Len(file) + 1]_vars

\* C12 happens: a store was closed and opened again on its log, and New
\* replayed a line of it
C12_Witness ==
    /\ last = <<"New", TRUE>>
    /\ st = "live"
    /\ applied > 0
    /\ closed # <<>>
    /\ logged > 0

\* the fresh store New replays into
Fresh == [items |-> EmptyMap, file |-> file, hist |-> EmptyMap]

\* the handler of New rejects the line
Rejected(line) ==
    TrimSpace(line) # <<>> /\ Handler(Fresh, TrimSpace(line), now).err

\* a replay that skips every line the handler rejects and goes on
RECURSIVE SkippingLoad(_, _, _)
SkippingLoad(lines, s, t) ==
    IF lines = <<>> THEN s
    ELSE LET line == TrimSpace(Head(lines))
             r == Handler(s, line, t)
         IN  IF line = <<>> \/ r.err THEN SkippingLoad(Tail(lines), s, t)
             ELSE SkippingLoad(Tail(lines), r.s, t)

C14_CloseIdempotent ==
    last = <<"Close">> => ~ret.err

\* C15: Get and Exists are read-only: they change neither the map nor the
\* log, so an entry whose expiration has passed stays in the map.
C15_ReadsChangeNothing ==
    [][last'[1] \in {"Get", "Exists"} => (items' = items /\ file' = file)]_vars

\* C15 happens: a Get did not find a key whose expired entry is in the map
C15_Witness ==
    /\ last[1] = "Get"
    /\ ~ret.found
    /\ last[2] \in DOMAIN items
    /\ After(now, items[last[2]].Expiration[1])

\* C16: in every state and at every instant, Exists(k) is true exactly when
\* Get(k) finds the key.
C16_ExistsIffGetFinds ==
    \A k \in Keys : ExistsAt(items, k, now) = GetAt(items, k, now).found

\* C16 happens: Exists returned false for a key whose expired entry is in
\* the map, beside a key that Get finds
C16_Witness ==
    /\ last[1] = "Exists"
    /\ ret = FALSE
    /\ last[2] \in DOMAIN items
    /\ \E k \in DOMAIN items : GetAt(items, k, now).found

\* C17: Set overwrites value and expiration whatever the key held: after
\* Set(k, v2, ttl2) the entry of k is v2 with no expiration if ttl2 <= 0 and
\* with expiration now + ttl2 if ttl2 > 0, Get(k) returns (v2, true), and
\* every other entry is as before.
C17_SetOverwrites ==
    [][last'[1] = "Set" =>
         LET k == last'[2]
             v == last'[3]
             ttl == last'[4]
         IN  /\ DOMAIN items' = DOMAIN items \cup {k}
             /\ items'[k].Value = v
             /\ items'[k].Expiration = IF ttl > 0 THEN <<now + ttl>> ELSE <<>>
             /\ GetAt(items', k, now') = Found(v)
             /\ \A j \in DOMAIN items \ {k} : items'[j] = items[j]]_vars

\* C17 happens: the replayed log gave key b the value "x y" and an
\* expiration, no Delete followed and no sweep could remove the entry yet,
\* and a Set without ttl has replaced it
C17_Witness ==
    /\ last[1] = "Set" /\ last[2] = <<"b">> /\ last[4] <= 0
    /\ aof = "open"
    /\ Len(file) = 3
    /\ Fields(file[1])[Len(Fields(file[1]))] = <<"1", "s">>
    /\ now <= 1
    /\ items[<<"b">>] = [Value |-> last[3], Expiration |-> <<>>]

\* C18: Delete(k) affects key k only: afterwards k is not in the map, Get(k)
\* and Exists(k) report it absent, and every other entry is as before; a
\* Delete of a key that is not in the map creates no entry.
C18_DeleteAffectsOnlyKey ==
    [][last'[1] = "Delete" =>
         LET k == last'[2]
         IN  /\ DOMAIN items' = DOMAIN items \ {k}
             /\ ~GetAt(items', k, now').found
             /\ ~ExistsAt(items', k, now')
             /\ \A j \in DOMAIN items' : items'[j] = items[j]]_vars

\* C18 happens: a Delete has acted on a map that holds, under the other key,
\* an entry with an expiration
C18_Witness ==
    /\ last[1] = "Delete"
    /\ \E j \in DOMAIN items : j # last[2] /\ items[j].Expiration # <<>>

\* C11: when the write of a SET or DELETE command to the log fails (in the
\* flush, in the sync, or because the file was closed), the map is changed
\* as it is when the write succeeds (nothing is rolled back) and the reply is
\* the success reply OK.
C11_WriteFailureKeepsMutation ==
    [][(last'[1] = "Command" /\ ret'.failed) =>
         /\ ret'.reply = OK
         /\ items' = HandleCommand(Cur, "open", last'[2], now, "ok").items]_vars

\* C11 happens: a SET that came after Close failed to write, and the map
\* holds its key
C11_Witness ==
    /\ last[1] = "Command"
    /\ ret.failed
    /\ aof = "closed"
    /\ ToUpper(Fields(last[2])[1]) = SET
    /\ Fields(last[2])[2] \in DOMAIN items

\* the entry a SET line of tokens parts stands for at instant t: the last of
\* more than three tokens is the ttl if it parses as a duration, and else
\* part of the value
EntryOf(parts, t) ==
    LET n == Len(parts)
        d == ParseDuration(parts[n])
    IN  IF n > 3 /\ d.ok
        THEN [Value |-> Join(SubSeq(parts, 3, n - 1), <<" ">>),
              Expiration |-> IF d.d > 0 THEN <<t + d.d>> ELSE <<>>]
        ELSE [Value |-> Join(SubSeq(parts, 3, n), <<" ">>), Expiration |-> <<>>]

\* the line is a SET of more than three tokens
LongSet(line) ==
    Len(Fields(line)) > 3 /\ ToUpper(Fields(line)[1]) = SET

\* C19: a SET line of more than three tokens is never rejected for its last
\* token. On the wire the reply is OK and the entry is EntryOf the line; in a
\* replayed log the key of the last line of the log, if that is such a SET,
\* holds EntryOf the line.
C19_TrailingTokenFallback ==
    [][/\ (last'[1] = "Command" /\ LongSet(last'[2])) =>
            /\ ret'.reply = OK
            /\ items'[Fields(last'[2])[2]] = EntryOf(Fields(last'[2]), now)
       /\ (last' = <<"New", TRUE>> /\ file # <<>> /\ LongSet(file[Len(file)])) =>
            /\ st' = "live"
            /\ items'[Fields(file[Len(file)])[2]]
                 = EntryOf(Fields(file[Len(file)]), now)]_vars

\* C19 happens: the wire command "SET b x 1x" was logged, the store closed
\* and opened again, and the replayed entry of b holds "x 1x" without
\* expiration
C19_Witness ==
    /\ last = <<"New", TRUE>>
    /\ closed # <<>>
    /\ logged > 0
    /\ <<"b">> \in DOMAIN items
    /\ items[<<"b">>] = [Value |-> <<"x", " ", "1", "x">>, Expiration |-> <<>>]

\* C20: under every interleaving of concurrent Set and Delete calls the lines
\* of the log are in the order in which the map was updated: when all calls
\* have returned, replaying the log in file order succeeds and gives every
\* key of the map the value the map holds, and the keys it gives beside them
\* are keys whose entry had a ttl and was removed by a sweep, which logs
\* nothing.
C20_LogOrderIsMapOrder ==
    (\A p \in Procs : pc[p] = "idle") =>
        \A r \in {NewStore(file, now)} :
            /\ ~r.err
            /\ \A k \in DOMAIN items :
                  k \in DOMAIN r.s.items /\ r.s.items[k].Value = items[k].Value
            /\ \A k \in DOMAIN r.s.items \ DOMAIN items :
                  r.s.items[k].Expiration # <<>>

\* C20 happens: both connections have set one key, the line of x stands in
\* the log before the line of y, and the map holds y
C20_Witness ==
    /\ \A p \in Procs : pc[p] = "idle"
    /\ \E i \in 1..Len(file), j \in 1..Len(file) :
          /\ i < j
          /\ Len(Fields(file[i])) >= 3 /\ Len(Fields(file[j])) >= 3
          /\ Fields(file[i])[2] = Fields(file[j])[2]
          /\ Fields(file[i])[3] = <<"x">>
          /\ Fields(file[j])[3] = <<"y">>
          /\ Fields(file[j])[2] \in DOMAIN items
          /\ items[Fields(file[j])[2]].Value = <<"y">>

\* C24: every entry of the map with an expiration got an expiration strictly
\* later than the instant of the Set that created it, in replay too: whenever
\* a step puts an entry into the map or changes one, the entry has no
\* expiration or one later than the instant of the step; and an entry a Set
\* with ttl <= 0 creates has no expiration.
C24_ExpirationInFuture ==
    [][/\ \A k \in DOMAIN items' :
            (k \notin DOMAIN items \/ items'[k] # items[k]) =>
               (items'[k].Expiration = <<>> \/ items'[k].Expiration[1] > now)
       /\ (last'[1] = "Set" /\ last'[4] <= 0) =>
            items'[last'[2]].Expiration = <<>>]_vars

\* C24 happens: New has built, by replay, a map with an entry that expires
C24_Witness ==
    /\ last = <<"New", TRUE>>
    /\ now > 0
    /\ \E k \in DOMAIN items : items[k].Expiration # <<>>

\* C25: a log the store wrote itself, by whatever Sets and Deletes, passes
\* the integrity check of the next open: the file of a store with an AOF
\* always passes checkAOFIntegrity.
C25_OwnLogPassesIntegrity ==
    (st = "live" /\ aof \in {"open", "closed"}) => CheckAOFIntegrity(file)

\* C26: a key whose ttl had elapsed before Close, so that Get did not find
\* it, is not found after the store is opened again on the log.
C26_ExpiredStaysExpired ==
    (last = <<"New", TRUE>> /\ closed # <<>> /\ st = "live") =>
        \A k \in DOMAIN closed[1].items :
            (/\ closed[1].items[k].Expiration # <<>>
             /\ ~GetAt(closed[1].items, k, closed[1].at).found)
               => ~GetNow(k).found

\* C27: a sweep is invisible to reads: Get(k) and Exists(k) return right
\* after a DeleteExpired what they return at that instant without it.
C27_SweepIsTransparent ==
    [][last' = <<"DeleteExpired">> =>
         \A k \in Keys :
            /\ GetAt(items', k, now') = GetAt(items, k, now)
            /\ ExistsAt(items', k, now') = ExistsAt(items, k, now)]_vars

\* C27 happens: a sweep has removed an entry and kept one that Get finds
C27_Witness ==
    /\ last = <<"DeleteExpired">>
    /\ DOMAIN hist # DOMAIN items
    /\ \E k \in DOMAIN items : items[k].Expiration # <<>> /\ GetNow(k).found

\* C28: within a session absence is stable: a key that Get and Exists do not
\* find is not found after any step but a Set of that key (and the New of a
\* next session), be it time passing, a sweep, a Delete or a read.
C28_AbsenceIsStable ==
    [][\A k \in Keys :
         (/\ ~GetNow(k).found
          /\ last'[1] # "New"
          /\ ~(last'[1] = "Set" /\ last'[2] = k))
            => (~GetAt(items', k, now').found /\ ~ExistsAt(items', k, now'))]_vars

\* C28 happens: Exists did not find a key that is not in the map, beside a
\* key whose entry has expired and is in the map
C28_Witness ==
    /\ last[1] = "Exists"
    /\ ret = FALSE
    /\ last[2] \notin DOMAIN items
    /\ \E k \in DOMAIN items : ~GetNow(k).found

\* C29: the integrity check and the replay handler accept the same lines:
\* every line of a log that is not blank passes LineIntegrity exactly when the
\* handler applies it without error, and a New that fails has applied no line
\* (it fails in the integrity check, never in the middle of the replay).
C29_CheckAndHandlerAgree ==
    /\ \A i \in 1..Len(file) :
          TrimSpace(file[i]) # <<>> => (LineIntegrity(file[i]) <=> ~Rejected(file[i]))
    /\ (last = <<"New", TRUE>> /\ ret.err) =>
          (applied = 0 /\ ~CheckAOFIntegrity(file))

\* C29 happens: New has replayed a log of a SET line and a blank line
C29_Witness ==
    /\ last = <<"New", TRUE>>
    /\ st = "live"
    /\ applied = 1
    /\ Len(file) = 2
    /\ TrimSpace(file[2]) = <<>>

\* C21: the store's lock is never held while the persister writes and
\* syncs: while a Set or Delete is inside AOF.Write, a Get or Exists of
\* another caller that waits for the shared lock can take it.
C21_ReadsPassDuringWrite ==
    \A w \in Procs, r \in Procs :
        (pc[w] = "awrite" /\ pc[r] = "rlock") => CanRLock(r)

\* C22: append, then acknowledge: when a Set or Delete of a store with an
\* AOF returns to its caller (which then sends "OK"), the Write of its
\* command has returned: the caller holds its result and has left AOF.mu,
\* and a Write without error has put the line into the file.
C22_AppendThenAcknowledge ==
    [][\A p \in Clients :
         (call[p].op \in {"Set", "Delete"} /\ pc[p] # "idle" /\ pc'[p] = "idle") =>
            /\ "err" \in DOMAIN loc[p]
            /\ p \notin amu
            /\ ~loc[p].err =>
                  \E i \in 1..Len(file) : <<file[i]>> = ScanLines(WriteText(p))]_vars

\* C22 happens: a Set is about to return, and its line is in the file
C22_Witness ==
    \E p \in Clients :
        /\ pc[p] = "unlock"
        /\ call[p].op = "Set"
        /\ "err" \in DOMAIN loc[p]
        /\ ~loc[p].err
        /\ file # <<>>
        /\ <<file[Len(file)]>> = ScanLines(WriteText(p))

\* C23: Write calls do not interleave: while no write has failed, the file
\* is the log the server started on followed by whole lines, each the
\* command text of one Write call, in the order in which the calls took
\* AOF.mu; only the line of the call inside Write may be missing yet, and
\* outside Write and Close the buffer is empty.
C23_WritesDoNotInterleave ==
    aof = "open" =>
        \E f0 \in ConcLogs :
            IF amu = {}
            THEN buf = <<>> /\ file = f0 \o writes
            ELSE \E n \in {Len(writes) - 1, Len(writes)} :
                   n >= 0 /\ file = f0 \o SubSeq(writes, 1, n)

\* C23 happens: two Write calls of two callers have put their lines into
\* the file while a third caller waits for the persister's lock
C23_Witness ==
    /\ aof = "open"
    /\ Len(writes) = 2
    /\ writes[1] # writes[2]
    /\ file = writes
    /\ pc[Closer] = "clock"

\* C30: the two locks cannot deadlock: no caller waits for the store's lock
\* while it holds the persister's lock, and every call of Set, Delete, Get,
\* Exists, DeleteExpired and Close returns.
C30_NoDeadlock ==
    /\ [](\A p \in Procs : pc[p] \in {"lock", "rlock"} => p \notin amu)
    /\ \A p \in Procs : (pc[p] # "idle") ~> (pc[p] = "idle")

\* C30 happens: a Set holds the store's lock and waits for the persister's
\* lock, which Close holds, while another caller waits for the store's lock
C30_Witness ==
    /\ pc["c1"] = "alock"
    /\ "c1" \in mu.w
    /\ amu = {Closer}
    /\ pc["c2"] \in {"lock", "rlock"}

\* C31: with the sweep loop running forever, an entry whose expiration has
\* passed does not stay in the map: it is removed, or a Set has given the
\* key another expiration or none.
C31_ExpiredEventuallyRemoved ==
    \A k \in SweepKeys, e \in 1..(MaxTime - 1) :
        (k \in DOMAIN items /\ items[k].Expiration = <<e>> /\ After(now, e))
           ~> ~(k \in DOMAIN items /\ items[k].Expiration = <<e>>)

\* C31 happens: the loop body of a sweep has just deleted an entry whose
\* expiration had passed when the sweep read the clock
C31_Witness ==
    /\ pc[Sweeper] = "range"
    /\ "key" \in DOMAIN loc[Sweeper]
    /\ loc[Sweeper].item.Expiration # <<>>
    /\ After(loc[Sweeper].t, loc[Sweeper].item.Expiration[1])
    /\ loc[Sweeper].key \notin DOMAIN items

====
